---- MODULE Spec2Model ----
(***************************************************************************)
(* A model of export_dashboard_data.py: main() loads two CSV tables and    *)
(* three optional JSON files, runs seven aggregators over them, assembles  *)
(* one document and writes it with json.dump(..., allow_nan=False).        *)
(*                                                                         *)
(* Floats are records [k, n, d]: k = "fin" is the rational n/d in lowest   *)
(* terms, k = "nan" is NaN (pandas' missing value), k = "inf" is           *)
(* +Infinity.  Strings read from a CSV cell are records [na, s]: na is the *)
(* missing cell.                                                           *)
(***************************************************************************)
EXTENDS Integers, Sequences, FiniteSets, TLC

\* ---------------------------------------------------------------- bounds
MaxPosts == 2
MaxAuthors == 2
\* total number of input records plus unreadable files of one run
MaxInput == 3

\* ------------------------------------------------------ program constants
TopPostsN == 20
TopAuthorsN == 20
TopSubmoltsN == 30
TopNetworkN == 20
FirstSubmolts == 5
ActiveMinPosts == 5

\* ----------------------------------------------------------------- floats
NaN == [k |-> "nan", n |-> 0, d |-> 1]
Inf == [k |-> "inf", n |-> 1, d |-> 1]
Num(i) == [k |-> "fin", n |-> i, d |-> 1]

Abs(i) == IF i < 0 THEN -i ELSE i

RECURSIVE Gcd(_, _)
Gcd(a, b) == IF b = 0 THEN a ELSE Gcd(b, a % b)

\* the rational n/d (d > 0) in lowest terms
Frac(n, d) ==
    LET g == Gcd(Abs(n), d)
    IN [k |-> "fin", n |-> n \div g, d |-> d \div g]

\* math.isfinite: what json.dump(allow_nan=False) accepts
IsFinite(x) == x.k = "fin"
\* pd.notna: only NaN is missing, Infinity is not
NotNa(x) == x.k # "nan"

\* a < b for floats that are not NaN
Less(a, b) ==
    \/ a.k = "fin" /\ b.k = "inf"
    \/ a.k = "fin" /\ b.k = "fin" /\ a.n * b.d < b.n * a.d

Min(a, b) == IF a < b THEN a ELSE b

\* ---------------------------------------------------------------- strings
Str(s) == [na |-> FALSE, s |-> s]
NaStr == [na |-> TRUE, s |-> ""]

\* ---------------------------------------------------------- seq utilities
Range(s) == {s[i] : i \in 1..Len(s)}

RECURSIVE SelectIdx(_, _, _)
\* the indices i..Len(s) of s whose element is in the set keep, ascending
SelectIdx(s, keep, i) ==
    IF i > Len(s) THEN <<>>
    ELSE (IF s[i] \in keep THEN <<i>> ELSE <<>>) \o SelectIdx(s, keep, i + 1)

Head0(s, n) == SubSeq(s, 1, Min(n, Len(s)))

RECURSIVE SumSeq(_)
SumSeq(s) == IF s = <<>> THEN 0 ELSE Head(s) + SumSeq(Tail(s))

RECURSIVE SetToSeq(_)
\* a set of integers or of strings of one length class, in ascending order
SetToSeq(S) ==
    IF S = {} THEN <<>>
    ELSE LET m == CHOOSE x \in S : \A y \in S : x <= y
         IN <<m>> \o SetToSeq(S \ {m})

\* ------------------------------------------------------- pandas primitives
\* Series.fillna(v): NaN cells become v
FillNa(x, v) == IF NotNa(x) THEN x ELSE v
\* fillna on a string column
FillStr(c, v) == IF c.na THEN Str(v) ELSE c

\* a column of a table as a sequence of cells
Column(table, f) == [i \in 1..Len(table) |-> table[i][f]]

\* the indices of the cells of col that are not NaN / are NaN, in row order
ValidIdx(col) == SelectIdx(col, {x \in Range(col) : NotNa(x)}, 1)
NanIdx(col) == SelectIdx(col, {x \in Range(col) : ~NotNa(x)}, 1)

\* the numerators of the finite cells of col (cells read from a file have d = 1)
FiniteNums(col) ==
    LET idx == SelectIdx(col, {x \in Range(col) : IsFinite(x)}, 1)
    IN [j \in 1..Len(idx) |-> col[idx[j]].n]

HasInf(col) == \E i \in 1..Len(col) : col[i].k = "inf"

\* Series.sum(): NaN skipped, the empty sum is 0
PdSum(col) == IF HasInf(col) THEN Inf ELSE Num(SumSeq(FiniteNums(col)))

\* Series.mean(): NaN skipped, NaN when nothing is left
PdMean(col) ==
    IF ValidIdx(col) = <<>> THEN NaN
    ELSE IF HasInf(col) THEN Inf
    ELSE Frac(SumSeq(FiniteNums(col)), Len(FiniteNums(col)))

\* i comes before j in a stable descending sort by keys
Before(keys, i, j) ==
    \/ Less(keys[j], keys[i])
    \/ ~Less(keys[i], keys[j]) /\ i <= j

RECURSIVE OrderDesc(_, _)
\* the indices in S ordered by descending key, equal keys in row order
OrderDesc(keys, S) ==
    IF S = {} THEN <<>>
    ELSE LET m == CHOOSE i \in S : \A j \in S : Before(keys, i, j)
         IN <<m>> \o OrderDesc(keys, S \ {m})

Reverse(s) == [i \in 1..Len(s) |-> s[Len(s) + 1 - i]]

\* the non-NaN cells of col in ascending order
SortedAsc(col) ==
    LET o == Reverse(OrderDesc(col, Range(ValidIdx(col))))
    IN [j \in 1..Len(o) |-> col[o[j]]]

\* Series.median(): NaN skipped, NaN when nothing is left
PdMedian(col) ==
    LET v == SortedAsc(col)
        m == Len(v)
    IN IF m = 0 THEN NaN
       ELSE IF v[(m + 1) \div 2].k = "inf" \/ v[(m + 2) \div 2].k = "inf" THEN Inf
       ELSE IF m % 2 = 1 THEN v[(m + 1) \div 2]
       ELSE Frac(v[m \div 2].n + v[m \div 2 + 1].n, 2)

\* Series.quantile(q100/100), linear interpolation, over finite integer cells
PdQuantile(col, q100) ==
    LET v == SortedAsc(col)
        m == Len(v)
        pos == (m - 1) * q100
        lo == pos \div 100 + 1
        fr == pos % 100
    IN IF m = 0 THEN NaN
       ELSE IF fr = 0 THEN v[lo]
       ELSE Frac(v[lo].n * 100 + fr * (v[lo + 1].n - v[lo].n), 100)

\* DataFrame.round(2) on one cell (no value of the model lies on a rounding tie)
Round2(x) ==
    IF ~IsFinite(x) THEN x
    ELSE Frac((200 * x.n + x.d) \div (2 * x.d), 100)

\* DataFrame.nlargest(n, column): the row indices of the n largest keys in
\* descending order; rows whose key is NaN come last, in row order
NLargest(col, n) ==
    IF n <= 0 THEN <<>>
    ELSE Head0(OrderDesc(col, Range(ValidIdx(col))) \o NanIdx(col), n)

\* x >= v as pandas compares: False for NaN
GreaterEq(x, v) == NotNa(x) /\ ~Less(x, v)

\* Series.nunique(): the number of distinct non-missing strings
NUnique(col) == Cardinality({c \in Range(col) : ~c.na})

\* the rows of key column col (integers) that equal key, in row order
RowsWith(col, key) == SelectIdx(col, {key}, 1)

\* the cells of col at the row indices idx
Pick(col, idx) == [j \in 1..Len(idx) |-> col[idx[j]]]

\* int(x) / float(x) of a finite cell; int() truncates toward zero
ToInt(x) == IF x.n >= 0 THEN Num(x.n \div x.d) ELSE Num(-((-x.n) \div x.d))

\* ------------------------------------------------------------ input domains
\* created_at: a day number (day 1 is a Monday) and an hour of that day
Timestamps == {[date |-> 1, hour |-> 0], [date |-> 7, hour |-> 23]}
Upvotes == {NaN, Num(-1), Num(2)}
Comments == {Num(1)}
Titles == {Str("t")}
AuthorNames == {Str("a")}
SubmoltCells == {Str("m")}
Urls == {NaStr, Str("u")}

PostRows ==
    [title : Titles, author_name : AuthorNames, submolt_display_name : SubmoltCells,
     upvotes : Upvotes, comment_count : Comments, created_at : Timestamps, url : Urls]

AuthorRows ==
    [total_posts : {NaN, Num(4), Num(5)}, engagement_rate : {Num(1)},
     avg_upvotes : {Num(2)}, success_rate : {Num(1)}, consistency_score : {Num(1)},
     upvotes_std : {Num(0)}, posts_per_day : {Num(1)}]

CrossAuthors == {"a", "b"}
\* an author's list: one submolt, two submolts, one submolt named twice
SubmoltLists == {<<"x">>, <<"x", "y">>, <<"x", "x">>}
BridgeEntries == [author : CrossAuthors, score : {Num(1), Inf}]
StatsKeys == {"density"}
StatsEntries == [key : StatsKeys, value : {Num(1), NaN}]

\* the length of a title of the model
StrLen(s) == IF s = "" THEN 0 ELSE 1

\* dt.day_name() and the day_order list of export_time_series
day_order == <<"Monday", "Tuesday", "Wednesday", "Thursday", "Friday", "Saturday", "Sunday">>
DayName(ts) == day_order[((ts.date - 1) % 7) + 1]
\* the day names in the order groupby sorts them
DaysSorted == <<"Friday", "Monday", "Saturday", "Sunday", "Thursday", "Tuesday", "Wednesday">>
\* the submolt names of the model in the order groupby sorts them
NamesSorted == <<"Unknown", "m">>

\* --------------------------------------------------------------- overview
export_overview_stats(data) ==
    LET df == data.posts
        up == Column(df, "upvotes")
        cc == Column(df, "comment_count")
    IN [total_posts |-> Num(Len(df)),
        total_authors |-> Num(NUnique(Column(df, "author_name"))),
        total_submolts |-> Num(NUnique(Column(df, "submolt_display_name"))),
        total_upvotes |-> ToInt(PdSum(up)),
        total_comments |-> ToInt(PdSum(cc)),
        avg_upvotes_per_post |-> PdMean(up),
        median_upvotes |-> PdMedian(up),
        avg_comments_per_post |-> PdMean(cc)]

\* -------------------------------------------------------------- top posts
export_top_posts(data, n) ==
    LET df == data.posts
        top == NLargest(Column(df, "upvotes"), n)
    IN [j \in 1..Len(top) |->
          LET post == df[top[j]]
              title == FillStr(post.title, "")
          IN [title |-> IF title.s # "" THEN title.s ELSE "Untitled",
              upvotes |-> IF NotNa(post.upvotes) THEN ToInt(post.upvotes) ELSE Num(0),
              comment_count |-> IF NotNa(post.comment_count)
                                THEN ToInt(post.comment_count) ELSE Num(0),
              author_name |-> FillStr(post.author_name, "Unknown").s,
              submolt_display_name |-> FillStr(post.submolt_display_name, "Unknown").s,
              created_at |-> post.created_at]]

\* ------------------------------------------------------------ top authors
\* author_stats.fillna(0)
FillAuthors(author_stats) ==
    [i \in 1..Len(author_stats) |->
        [f \in DOMAIN author_stats[i] |-> FillNa(author_stats[i][f], Num(0))]]

\* ActiveIdx with the threshold one post too low
ActiveIdx_OffByOne(stats) ==
    SelectIdx(stats, {r \in Range(stats) : GreaterEq(r.total_posts, Num(ActiveMinPosts - 1))}, 1)

\* author_stats[author_stats['total_posts'] >= 5]: the indices of the rows kept
ActiveIdx(stats) ==
    SelectIdx(stats, {r \in Range(stats) : GreaterEq(r.total_posts, Num(ActiveMinPosts))}, 1)

\* frame.nlargest(n, f) over the rows idx of stats: original row indices
NLargestOf(stats, idx, f, n) ==
    LET top == NLargest(Pick(Column(stats, f), idx), n)
    IN [j \in 1..Len(top) |-> idx[top[j]]]

Float0(x) == IF NotNa(x) THEN x ELSE Num(0)
Int0(x) == IF NotNa(x) THEN ToInt(x) ELSE Num(0)

export_top_authors(data, n) ==
    LET stats == FillAuthors(data.author_stats)
        all == [i \in 1..Len(stats) |-> i]
        active == ActiveIdx(stats)
        eng == NLargestOf(stats, active, "engagement_rate", n)
        pst == NLargestOf(stats, all, "total_posts", n)
        con == NLargestOf(stats, active, "consistency_score", n)
    IN [by_engagement |-> [j \in 1..Len(eng) |->
            LET row == stats[eng[j]]
            IN [name |-> eng[j] - 1,
                engagement_rate |-> Float0(row.engagement_rate),
                total_posts |-> Int0(row.total_posts),
                avg_upvotes |-> Float0(row.avg_upvotes),
                success_rate |-> Float0(row.success_rate)]],
        by_posts |-> [j \in 1..Len(pst) |->
            LET row == stats[pst[j]]
            IN [name |-> pst[j] - 1,
                total_posts |-> Int0(row.total_posts),
                avg_upvotes |-> Float0(row.avg_upvotes),
                posts_per_day |-> Float0(row.posts_per_day)]],
        by_consistency |-> [j \in 1..Len(con) |->
            LET row == stats[con[j]]
            IN [name |-> con[j] - 1,
                consistency_score |-> Float0(row.consistency_score),
                total_posts |-> Int0(row.total_posts),
                avg_upvotes |-> Float0(row.avg_upvotes),
                upvotes_std |-> Float0(row.upvotes_std)]]]

\* ---------------------------------------------------------- top submolts
\* the names of NamesSorted that occur among the cells of col, in that order
GroupNames(col) ==
    LET idx == SelectIdx(NamesSorted, {c.s : c \in Range(col)}, 1)
    IN [j \in 1..Len(idx) |-> NamesSorted[idx[j]]]

export_submolt_stats(data, n) ==
    LET df == [i \in 1..Len(data.posts) |->
                 [data.posts[i] EXCEPT
                    !.submolt_display_name = FillStr(@, "Unknown"),
                    !.upvotes = FillNa(@, Num(0)),
                    !.comment_count = FillNa(@, Num(0))]]
        names == GroupNames(Column(df, "submolt_display_name"))
        rows(g) == SelectIdx(df, {r \in Range(df) : r.submolt_display_name.s = g}, 1)
        stat(g) ==
            LET up == Pick(Column(df, "upvotes"), rows(g))
                cc == Pick(Column(df, "comment_count"), rows(g))
            IN [post_count |-> Num(Len(rows(g))),
                total_upvotes |-> FillNa(Round2(PdSum(up)), Num(0)),
                avg_upvotes |-> FillNa(Round2(PdMean(up)), Num(0)),
                median_upvotes |-> FillNa(Round2(PdMedian(up)), Num(0)),
                total_comments |-> FillNa(Round2(PdSum(cc)), Num(0)),
                avg_comments |-> FillNa(Round2(PdMean(cc)), Num(0)),
                unique_authors |-> Num(NUnique(Pick(Column(df, "author_name"), rows(g))))]
        submolt_stats == [j \in 1..Len(names) |-> stat(names[j])]
        top == NLargest(Column(submolt_stats, "post_count"), n)
    IN [j \in 1..Len(top) |->
          LET row == submolt_stats[top[j]]
          IN [name |-> names[top[j]],
              post_count |-> ToInt(row.post_count),
              total_upvotes |-> ToInt(row.total_upvotes),
              avg_upvotes |-> row.avg_upvotes,
              median_upvotes |-> row.median_upvotes,
              total_comments |-> ToInt(row.total_comments),
              avg_comments |-> row.avg_comments,
              unique_authors |-> ToInt(row.unique_authors)]]

\* ------------------------------------------------------------ time series
\* df.fillna({'upvotes': 0}) of export_time_series
FillUpvotes(posts) ==
    [i \in 1..Len(posts) |-> [posts[i] EXCEPT !.upvotes = FillNa(@, Num(0))]]

DateCol(df) == [i \in 1..Len(df) |-> df[i].created_at.date]
HourCol(df) == [i \in 1..Len(df) |-> df[i].created_at.hour]
DayCol(df) == [i \in 1..Len(df) |-> DayName(df[i].created_at)]

\* df.groupby('hour').agg({'id': 'count', 'upvotes': 'mean'}).reset_index().fillna(0)
HourlyPattern(df) ==
    LET hours == SetToSeq(Range(HourCol(df)))
    IN [j \in 1..Len(hours) |->
          LET rows == RowsWith(HourCol(df), hours[j])
          IN [hour |-> hours[j],
              id |-> Num(Len(rows)),
              upvotes |-> FillNa(PdMean(Pick(Column(df, "upvotes"), rows)), Num(0))]]

\* DayOfWeekPattern without the reindex: only the weekdays that have posts,
\* in the order groupby sorts their names
DayOfWeekPattern_NoReindex(df) ==
    LET present == SelectIdx(DaysSorted, Range(DayCol(df)), 1)
    IN [j \in 1..Len(present) |->
          LET rows == RowsWith(DayCol(df), DaysSorted[present[j]])
          IN [day_of_week |-> DaysSorted[present[j]],
              id |-> Num(Len(rows)),
              upvotes |-> FillNa(PdMean(Pick(Column(df, "upvotes"), rows)), Num(0))]]

\* df.groupby('day_of_week').agg(...).reindex(day_order).reset_index().fillna(0)
DayOfWeekPattern(df) ==
    [j \in 1..Len(day_order) |->
        LET rows == RowsWith(DayCol(df), day_order[j])
            grouped == rows # <<>>
        IN [day_of_week |-> day_order[j],
            id |-> FillNa(IF grouped THEN Num(Len(rows)) ELSE NaN, Num(0)),
            upvotes |-> FillNa(IF grouped THEN PdMean(Pick(Column(df, "upvotes"), rows))
                                          ELSE NaN, Num(0))]]

\* df.groupby('date').agg({'id': 'count', 'upvotes': 'sum'}).reset_index().fillna(0)
DailyPosts(df) ==
    LET dates == SetToSeq(Range(DateCol(df)))
    IN [j \in 1..Len(dates) |->
          LET rows == RowsWith(DateCol(df), dates[j])
          IN [date |-> dates[j],
              id |-> Num(Len(rows)),
              upvotes |-> FillNa(PdSum(Pick(Column(df, "upvotes"), rows)), Num(0))]]

export_time_series(data) ==
    LET df == FillUpvotes(data.posts)
    IN [daily_posts |-> DailyPosts(df),
        hourly_pattern |-> HourlyPattern(df),
        day_of_week_pattern |-> DayOfWeekPattern(df)]

\* ---------------------------------------------------------------- network
\* cross_poster_counts: (author, len(submolts)) sorted by the count, descending
CrossPosterOrder(cross_posters) ==
    OrderDesc([i \in 1..Len(cross_posters) |-> Num(Len(cross_posters[i].submolts))],
              1..Len(cross_posters))

export_network_data(data) ==
    LET cross_posters == data.cross_posters
        ranked == Head0(CrossPosterOrder(cross_posters), TopNetworkN)
        bridge_authors == data.bridge_authors
        bridge_sorted == Head0(OrderDesc(Column(bridge_authors, "score"),
                                         1..Len(bridge_authors)), TopNetworkN)
    IN [stats |-> data.network_stats,
        top_cross_posters |-> [j \in 1..Len(ranked) |->
            LET e == cross_posters[ranked[j]]
            IN [author |-> e.author,
                submolt_count |-> Num(Len(e.submolts)),
                submolts |-> Head0(e.submolts, FirstSubmolts)]],
        top_bridge_authors |-> [j \in 1..Len(bridge_sorted) |->
            [author |-> bridge_authors[bridge_sorted[j]].author,
             bridge_score |-> bridge_authors[bridge_sorted[j]].score]]]

\* --------------------------------------------------------------- insights
\* df.fillna({'upvotes': 0, 'title': '', 'url': ''}) of export_insights
FillInsights(posts) ==
    [i \in 1..Len(posts) |->
        [posts[i] EXCEPT !.upvotes = FillNa(@, Num(0)),
                         !.title = FillStr(@, ""),
                         !.url = FillStr(@, "")]]

\* col.isna().all(): true of the empty column
AllNa(col) == \A i \in 1..Len(col) : ~NotNa(col[i])
AllNaStr(col) == \A i \in 1..Len(col) : col[i].na

\* Series.notna().sum() on a string column
NotNaCount(col) == Cardinality({i \in 1..Len(col) : ~col[i].na})

\* groupby(keys)['upvotes'].mean().fillna(0).idxmax(): the first group, in
\* the order of the sequence groups, whose mean is the largest
BestGroup(df, keycol, groups) ==
    LET present == SelectIdx(groups, Range(keycol), 1)
        means == [j \in 1..Len(present) |->
                    FillNa(PdMean(Pick(Column(df, "upvotes"),
                                       RowsWith(keycol, groups[present[j]]))), Num(0))]
    IN groups[present[OrderDesc(means, 1..Len(means))[1]]]

\* idxmax() raises ValueError on an empty sequence
InsightsRaises(data) == Len(data.posts) = 0

export_insights(data) ==
    LET df == FillInsights(data.posts)
        author_stats == FillAuthors(data.author_stats)
        up == Column(df, "upvotes")
        tp == Column(author_stats, "total_posts")
        lens == [i \in 1..Len(df) |-> Num(StrLen(df[i].title.s))]
    IN [engagement |->
          [avg_upvotes |-> IF ~AllNa(up) THEN PdMean(up) ELSE Num(0),
           median_upvotes |-> IF ~AllNa(up) THEN PdMedian(up) ELSE Num(0),
           top_1_percent_threshold |-> IF ~AllNa(up) THEN PdQuantile(up, 99) ELSE Num(0),
           viral_threshold |-> IF ~AllNa(up) THEN PdQuantile(up, 90) ELSE Num(0)],
        authors |->
          [total |-> Num(NUnique(Column(df, "author_name"))),
           active_5plus |-> Num(Len(ActiveIdx(author_stats))),
           avg_posts_per_author |-> IF ~AllNa(tp) THEN PdMean(tp) ELSE Num(0),
           cross_posting_rate |->
               IF Len(author_stats) > 0
               THEN Frac(Len(data.cross_posters) * 100, Len(author_stats))
               ELSE Num(0)],
        content |->
          [total_posts |-> Num(Len(df)),
           total_submolts |-> Num(NUnique(Column(df, "submolt_display_name"))),
           avg_title_length |-> IF ~AllNaStr(Column(df, "title")) THEN PdMean(lens)
                                ELSE Num(0),
           posts_with_urls |-> Num(NotNaCount(Column(df, "url")))],
        timing |->
          [best_hour |-> BestGroup(df, HourCol(df), SetToSeq(Range(HourCol(df)))),
           best_day |-> BestGroup(df, DayCol(df), DaysSorted)]]

\* ------------------------------------------------------------- the writer
RECURSIVE Flatten(_)
\* the concatenation of a sequence of sequences
Flatten(ss) == IF ss = <<>> THEN <<>> ELSE Head(ss) \o Flatten(Tail(ss))

\* the numeric leaves of each section, in the order json.dump meets them
OverviewLeaves(o) ==
    <<o.total_posts, o.total_authors, o.total_submolts, o.total_upvotes,
      o.total_comments, o.avg_upvotes_per_post, o.median_upvotes,
      o.avg_comments_per_post>>
TopPostsLeaves(t) == Flatten([j \in 1..Len(t) |-> <<t[j].upvotes, t[j].comment_count>>])
TopAuthorsLeaves(a) ==
    Flatten([j \in 1..Len(a.by_engagement) |->
               <<a.by_engagement[j].engagement_rate, a.by_engagement[j].total_posts,
                 a.by_engagement[j].avg_upvotes, a.by_engagement[j].success_rate>>])
    \o Flatten([j \in 1..Len(a.by_posts) |->
               <<a.by_posts[j].total_posts, a.by_posts[j].avg_upvotes,
                 a.by_posts[j].posts_per_day>>])
    \o Flatten([j \in 1..Len(a.by_consistency) |->
               <<a.by_consistency[j].consistency_score, a.by_consistency[j].total_posts,
                 a.by_consistency[j].avg_upvotes, a.by_consistency[j].upvotes_std>>])
TopSubmoltsLeaves(t) ==
    Flatten([j \in 1..Len(t) |->
               <<t[j].post_count, t[j].total_upvotes, t[j].avg_upvotes,
                 t[j].median_upvotes, t[j].total_comments, t[j].avg_comments,
                 t[j].unique_authors>>])
TimeSeriesLeaves(t) ==
    Flatten([j \in 1..Len(t.daily_posts) |->
               <<t.daily_posts[j].id, t.daily_posts[j].upvotes>>])
    \o Flatten([j \in 1..Len(t.hourly_pattern) |->
               <<Num(t.hourly_pattern[j].hour), t.hourly_pattern[j].id,
                 t.hourly_pattern[j].upvotes>>])
    \o Flatten([j \in 1..Len(t.day_of_week_pattern) |->
               <<t.day_of_week_pattern[j].id, t.day_of_week_pattern[j].upvotes>>])
NetworkLeaves(w) ==
    [j \in 1..Len(w.stats) |-> w.stats[j].value]
    \o [j \in 1..Len(w.top_cross_posters) |-> w.top_cross_posters[j].submolt_count]
    \o [j \in 1..Len(w.top_bridge_authors) |-> w.top_bridge_authors[j].bridge_score]
InsightsLeaves(s) ==
    <<s.engagement.avg_upvotes, s.engagement.median_upvotes,
      s.engagement.top_1_percent_threshold, s.engagement.viral_threshold,
      s.authors.total, s.authors.active_5plus, s.authors.avg_posts_per_author,
      s.authors.cross_posting_rate, s.content.total_posts, s.content.total_submolts,
      s.content.avg_title_length, s.content.posts_with_urls, Num(s.timing.best_hour)>>

\* every numeric leaf of the assembled document, in key order
Leaves(doc) ==
    OverviewLeaves(doc.overview) \o TopPostsLeaves(doc.top_posts)
    \o TopAuthorsLeaves(doc.top_authors) \o TopSubmoltsLeaves(doc.top_submolts)
    \o TimeSeriesLeaves(doc.time_series) \o NetworkLeaves(doc.network)
    \o InsightsLeaves(doc.insights)

\* the leaves json.dump has written when it stops: all of them, or those
\* before the first one allow_nan=False rejects
RECURSIVE Written(_)
Written(leaves) ==
    IF leaves = <<>> \/ ~IsFinite(Head(leaves)) THEN <<>>
    ELSE <<Head(leaves)>> \o Written(Tail(leaves))

\* ------------------------------------------------------------------ state
VARIABLES
    files,      \* the five input files: readable or not, and their records
    out,        \* dashboard_data.json
    data,       \* the mapping load_all_data returns
    doc,        \* dashboard_data, section by section
    pc,         \* the position of main()
    failedAt    \* the call that raised, "" while none has

vars == <<files, out, data, doc, pc, failedAt>>

FileNames == {"posts", "author_stats", "cross_posters", "bridge_authors", "network_stats"}
Required == {"posts", "author_stats"}

\* the mappings of a cross-poster file with l authors, in file order
CrossMaps(l) ==
    {m \in [1..l -> [author : CrossAuthors, submolts : SubmoltLists]] :
        \A i, j \in 1..l : i # j => m[i].author # m[j].author}

\* the mappings of a bridge-author file and of a network-statistics file
BridgeMaps(l) ==
    {m \in [1..l -> BridgeEntries] :
        \A i, j \in 1..l : i # j => m[i].author # m[j].author}
StatsMaps(l) ==
    {m \in [1..l -> StatsEntries] : \A i, j \in 1..l : i # j => m[i].key # m[j].key}

\* dashboard_data.json before the run: absent, or the document of an earlier run
NoFile == [exists |-> FALSE, complete |-> FALSE, modified |-> FALSE, body |-> <<>>]
OldFile == [exists |-> TRUE, complete |-> TRUE, modified |-> FALSE, body |-> <<Num(1)>>]

NoData == [posts |-> <<>>, author_stats |-> <<>>, cross_posters |-> <<>>,
           bridge_authors |-> <<>>, network_stats |-> <<>>]
NoDoc == [overview |-> <<>>, top_posts |-> <<>>, top_authors |-> <<>>,
          top_submolts |-> <<>>, time_series |-> <<>>, network |-> <<>>,
          insights |-> <<>>]

Init ==
    /\ \E np \in 0..MaxPosts, na \in 0..MaxAuthors, nc \in 0..Cardinality(CrossAuthors),
          nb \in 0..Cardinality(CrossAuthors), ns \in 0..Cardinality(StatsKeys),
          bad \in SUBSET FileNames :
         /\ np + na + nc + nb + ns + Cardinality(bad) <= MaxInput
         /\ "posts" \in bad => np = 0
         /\ "author_stats" \in bad => na = 0
         /\ "cross_posters" \in bad => nc = 0
         /\ "bridge_authors" \in bad => nb = 0
         /\ "network_stats" \in bad => ns = 0
         /\ \E p \in [1..np -> PostRows], a \in [1..na -> AuthorRows],
               c \in CrossMaps(nc), b \in BridgeMaps(nb),
               t \in StatsMaps(ns) :
              files = [posts |-> [ok |-> "posts" \notin bad, body |-> p],
                       author_stats |-> [ok |-> "author_stats" \notin bad, body |-> a],
                       cross_posters |-> [ok |-> "cross_posters" \notin bad, body |-> c],
                       bridge_authors |-> [ok |-> "bridge_authors" \notin bad, body |-> b],
                       network_stats |-> [ok |-> "network_stats" \notin bad, body |-> t]]
    /\ out \in {NoFile, OldFile}
    /\ data = NoData
    /\ doc = NoDoc
    /\ pc = "start"
    /\ failedAt = ""

\* an exception leaves main(): the run ends without reaching the summary
Raise(where) ==
    /\ pc' = "failed"
    /\ failedAt' = where

\* LoadOptional with the three files read under one try block
LoadOptional_OneTry(f) ==
    IF \A g \in FileNames \ Required : files[g].ok THEN files[f].body ELSE <<>>

\* json.load under try/except: the mapping, or {} when the read or parse fails
LoadOptional(f) == IF files[f].ok THEN files[f].body ELSE <<>>

\* LoadAllData with the required tables read like the optional files: an
\* unreadable table becomes an empty one
LoadAllData_Lenient ==
    /\ pc = "start"
    /\ data' = [posts |-> IF files.posts.ok THEN files.posts.body ELSE <<>>,
                author_stats |-> IF files.author_stats.ok THEN files.author_stats.body
                                 ELSE <<>>,
                cross_posters |-> LoadOptional("cross_posters"),
                bridge_authors |-> LoadOptional("bridge_authors"),
                network_stats |-> LoadOptional("network_stats")]
    /\ pc' = "loaded"
    /\ UNCHANGED <<files, out, doc, failedAt>>

\* load_all_data(): pd.read_csv raises on a required file it cannot read
LoadAllData ==
    /\ pc = "start"
    /\ IF \E f \in Required : ~files[f].ok
       THEN /\ Raise("load_all_data")
            /\ UNCHANGED data
       ELSE /\ data' = [posts |-> files.posts.body,
                        author_stats |-> files.author_stats.body,
                        cross_posters |-> LoadOptional("cross_posters"),
                        bridge_authors |-> LoadOptional("bridge_authors"),
                        network_stats |-> LoadOptional("network_stats")]
            /\ pc' = "loaded"
            /\ UNCHANGED failedAt
    /\ UNCHANGED <<files, out, doc>>

ExportOverviewStats ==
    /\ pc = "loaded"
    /\ doc' = [doc EXCEPT !.overview = export_overview_stats(data)]
    /\ pc' = "overview"
    /\ UNCHANGED <<files, out, data, failedAt>>

\* pd.read_csv gives a table with a header and no rows object columns, and
\* DataFrame.nlargest raises TypeError on an object column
NLargestRaises(table) == Len(table) = 0

ExportTopPosts ==
    /\ pc = "overview"
    /\ IF NLargestRaises(data.posts)
       THEN /\ Raise("export_top_posts")
            /\ UNCHANGED doc
       ELSE /\ doc' = [doc EXCEPT !.top_posts = export_top_posts(data, TopPostsN)]
            /\ pc' = "top_posts"
            /\ UNCHANGED failedAt
    /\ UNCHANGED <<files, out, data>>

ExportTopAuthors ==
    /\ pc = "top_posts"
    /\ IF NLargestRaises(data.author_stats)
       THEN /\ Raise("export_top_authors")
            /\ UNCHANGED doc
       ELSE /\ doc' = [doc EXCEPT !.top_authors = export_top_authors(data, TopAuthorsN)]
            /\ pc' = "top_authors"
            /\ UNCHANGED failedAt
    /\ UNCHANGED <<files, out, data>>

ExportSubmoltStats ==
    /\ pc = "top_authors"
    /\ doc' = [doc EXCEPT !.top_submolts = export_submolt_stats(data, TopSubmoltsN)]
    /\ pc' = "top_submolts"
    /\ UNCHANGED <<files, out, data, failedAt>>

ExportTimeSeries ==
    /\ pc = "top_submolts"
    /\ doc' = [doc EXCEPT !.time_series = export_time_series(data)]
    /\ pc' = "time_series"
    /\ UNCHANGED <<files, out, data, failedAt>>

ExportNetworkData ==
    /\ pc = "time_series"
    /\ doc' = [doc EXCEPT !.network = export_network_data(data)]
    /\ pc' = "network"
    /\ UNCHANGED <<files, out, data, failedAt>>

ExportInsights ==
    /\ pc = "network"
    /\ IF InsightsRaises(data)
       THEN /\ Raise("export_insights")
            /\ UNCHANGED doc
       ELSE /\ doc' = [doc EXCEPT !.insights = export_insights(data)]
            /\ pc' = "assembled"
            /\ UNCHANGED failedAt
    /\ UNCHANGED <<files, out, data>>

\* open(output_path, 'w'): creates the file or truncates it
OpenOutput ==
    /\ pc = "assembled"
    /\ out' = [exists |-> TRUE, complete |-> FALSE, modified |-> TRUE, body |-> <<>>]
    /\ pc' = "opened"
    /\ UNCHANGED <<files, data, doc, failedAt>>

\* json.dump(dashboard_data, f, indent=2, allow_nan=False) and the close of f:
\* the encoder streams chunk by chunk and raises ValueError at the first
\* non-finite float, after the chunks before it have been written
JsonDump ==
    /\ pc = "opened"
    /\ LET leaves == Leaves(doc)
           w == Written(leaves)
       IN IF Len(w) = Len(leaves)
          THEN /\ out' = [out EXCEPT !.body = w, !.complete = TRUE]
               /\ pc' = "written"
               /\ UNCHANGED failedAt
          ELSE /\ out' = [out EXCEPT !.body = w]
               /\ Raise("json.dump")
    /\ UNCHANGED <<files, data, doc>>

\* the console summary
PrintSummary ==
    /\ pc = "written"
    /\ pc' = "done"
    /\ UNCHANGED <<files, out, data, doc, failedAt>>

Next ==
    \/ LoadAllData
    \/ ExportOverviewStats
    \/ ExportTopPosts
    \/ ExportTopAuthors
    \/ ExportSubmoltStats
    \/ ExportTimeSeries
    \/ ExportNetworkData
    \/ ExportInsights
    \/ OpenOutput
    \/ JsonDump
    \/ PrintSummary

Spec == Init /\ [][Next]_vars

\* ================================================================= claims

\* the input tables as the files hold them
SrcPosts == files.posts.body
SrcAuthors == files.author_stats.body
SrcCross == files.cross_posters.body

\* C1: every numeric leaf of the document main() has assembled is finite
\* before the writer is invoked.
C1_AssembledLeavesFinite ==
    pc = "assembled" =>
        \A i \in 1..Len(Leaves(doc)) : Leaves(doc)[i].k = "fin"

\* C2: hourly_pattern has exactly 24 entries, one for each hour 0..23.
C2_HourlyHasAllHours ==
    pc = "time_series" =>
        LET h == doc.time_series.hourly_pattern
        IN /\ Len(h) = 24
           /\ \A hr \in 0..23 : \E j \in 1..Len(h) : h[j].hour = hr

\* the posts of the input created on the weekday numbered w (1 is Monday)
PostsOnWeekday(w) ==
    {i \in 1..Len(SrcPosts) : (SrcPosts[i].created_at.date - 1) % 7 = w - 1}

\* C3: day_of_week_pattern has exactly 7 entries in the order Monday..Sunday;
\* a weekday without posts has post count 0 and mean upvotes 0, a weekday
\* with posts has their number as its post count.
C3_DayOfWeekPattern ==
    pc = "time_series" =>
        LET d == doc.time_series.day_of_week_pattern
        IN /\ Len(d) = 7
           /\ <<d[1].day_of_week, d[2].day_of_week, d[3].day_of_week, d[4].day_of_week,
                d[5].day_of_week, d[6].day_of_week, d[7].day_of_week>>
              = <<"Monday", "Tuesday", "Wednesday", "Thursday", "Friday", "Saturday",
                  "Sunday">>
           /\ \A w \in 1..7 :
                IF PostsOnWeekday(w) = {}
                THEN d[w].id = Num(0) /\ d[w].upvotes = Num(0)
                ELSE d[w].id = Num(Cardinality(PostsOnWeekday(w)))

\* C3 witness: the time series of a table that leaves some weekdays empty
C3_Witness ==
    /\ pc = "time_series"
    /\ PostsOnWeekday(1) # {}
    /\ PostsOnWeekday(2) = {}
    /\ doc.time_series.day_of_week_pattern[2].id = Num(0)

\* C4: top_posts has at most min(N, total_posts) entries and its reported
\* upvotes never increase from one entry to the next.
C4_TopPostsSorted ==
    pc = "top_posts" =>
        LET t == doc.top_posts
        IN /\ Len(t) <= TopPostsN
           /\ Len(t) <= Len(SrcPosts)
           /\ \A j \in 1..Len(t) : \A l \in 1..Len(t) :
                j < l => t[l].upvotes.n <= t[j].upvotes.n

\* total_posts of the source row of an entry, a missing value counting as 0
SourceTotalPosts(name) ==
    LET x == SrcAuthors[name + 1].total_posts
    IN IF x.k = "nan" THEN 0 ELSE x.n

\* C5: every author in by_engagement or by_consistency has total_posts >= 5
\* in the source table; by_posts is not filtered: it ranks every author when
\* the table has at most N rows.
C5_ActiveAuthorsOnly ==
    pc = "top_authors" =>
        LET a == doc.top_authors
        IN /\ \A j \in 1..Len(a.by_engagement) :
                SourceTotalPosts(a.by_engagement[j].name) >= 5
           /\ \A j \in 1..Len(a.by_consistency) :
                SourceTotalPosts(a.by_consistency[j].name) >= 5
           /\ Len(SrcAuthors) <= TopAuthorsN =>
                {a.by_posts[j].name : j \in 1..Len(a.by_posts)}
                    = {i - 1 : i \in 1..Len(SrcAuthors)}

\* C5 witness: an active author is ranked by engagement and by consistency
\* while by_posts also holds an author with fewer than 5 posts
C5_Witness ==
    /\ pc = "top_authors"
    /\ Len(doc.top_authors.by_engagement) > 0
    /\ Len(doc.top_authors.by_consistency) > 0
    /\ \E j \in 1..Len(doc.top_authors.by_posts) :
          SourceTotalPosts(doc.top_authors.by_posts[j].name) < 5

\* C6: when a required dataset cannot be read the run aborts in
\* load_all_data: no aggregator runs, the output file is neither created nor
\* modified, and the run does not end in success.
C6_FatalLoadLeavesOutput ==
    (~files.posts.ok \/ ~files.author_stats.ok) =>
        /\ pc \in {"start", "failed"}
        /\ pc = "failed" => failedAt = "load_all_data"
        /\ out \in {NoFile, OldFile}
        /\ data = NoData

\* C6 witness: the run has aborted on an unreadable author table and the
\* earlier output file is still in place
C6_Witness ==
    /\ pc = "failed"
    /\ files.posts.ok
    /\ ~files.author_stats.ok
    /\ out = OldFile

\* every mapping a readable cross-poster file of the model can hold
AllCrossMaps == UNION {CrossMaps(l) : l \in 0..Cardinality(CrossAuthors)}

\* C7: an unreadable cross-poster file becomes the empty mapping for that
\* input alone and the run continues; top_cross_posters is empty,
\* cross_posting_rate is 0.0, and every other section is the one a run on
\* the same inputs with a readable cross-poster file produces.
C7_CrossPosterFailureIsLocal ==
    (~files.cross_posters.ok /\ files.posts.ok /\ files.author_stats.ok) =>
        /\ ~(pc = "failed" /\ failedAt = "load_all_data")
        /\ pc # "start" =>
             /\ data.cross_posters = <<>>
             /\ files.bridge_authors.ok => data.bridge_authors = files.bridge_authors.body
             /\ files.network_stats.ok => data.network_stats = files.network_stats.body
        /\ pc = "assembled" =>
             /\ doc.network.top_cross_posters = <<>>
             /\ doc.insights.authors.cross_posting_rate = Num(0)
             /\ \A c \in AllCrossMaps :
                  LET with == [data EXCEPT !.cross_posters = c]
                      net == export_network_data(with)
                      ins == export_insights(with)
                  IN /\ doc.overview = export_overview_stats(with)
                     /\ doc.top_posts = export_top_posts(with, TopPostsN)
                     /\ doc.top_authors = export_top_authors(with, TopAuthorsN)
                     /\ doc.top_submolts = export_submolt_stats(with, TopSubmoltsN)
                     /\ doc.time_series = export_time_series(with)
                     /\ doc.network.stats = net.stats
                     /\ doc.network.top_bridge_authors = net.top_bridge_authors
                     /\ doc.insights.engagement = ins.engagement
                     /\ doc.insights.content = ins.content
                     /\ doc.insights.timing = ins.timing
                     /\ doc.insights.authors
                          = [ins.authors EXCEPT !.cross_posting_rate = Num(0)]

\* C7 witness: a document assembled although the cross-poster file could not
\* be read
C7_Witness ==
    /\ pc = "assembled"
    /\ ~files.cross_posters.ok
    /\ Len(data.author_stats) > 0
    /\ doc.network.top_cross_posters = <<>>

\* C8: a document with a non-finite value is rejected by the writer, never
\* emitted, the run fails, and the output file is not left holding a
\* truncated or partially written document.
C8_RejectionLeavesNoPartialFile ==
    /\ pc \in {"written", "done"} =>
         /\ \A i \in 1..Len(out.body) : out.body[i].k = "fin"
         /\ out.body = Leaves(doc)
    /\ (pc = "failed" /\ failedAt = "json.dump") =>
         \E i \in 1..Len(Leaves(doc)) : Leaves(doc)[i].k # "fin"
    /\ (pc = "failed" /\ failedAt = "json.dump") => (out.exists => out.complete)

\* C9: posts_with_urls is the number of posts whose URL is not missing in
\* the input.
C9_PostsWithUrls ==
    pc = "assembled" =>
        doc.insights.content.posts_with_urls
            = Num(Cardinality({i \in 1..Len(SrcPosts) : ~SrcPosts[i].url.na}))

\* the number of distinct submolts in the list the input holds for an author
DistinctSubmolts(author) ==
    LET e == CHOOSE x \in Range(SrcCross) : x.author = author
    IN Cardinality(Range(e.submolts))

\* C10: top_cross_posters has at most 20 entries ranked descending by the
\* number of distinct submolts; submolt_count is that number and submolts is
\* the first 5 names of the author's list.
C10_CrossPostersByDistinctSubmolts ==
    pc = "network" =>
        LET t == doc.network.top_cross_posters
        IN /\ Len(t) <= 20
           /\ \A j \in 1..Len(t) :
                /\ t[j].submolt_count = Num(DistinctSubmolts(t[j].author))
                /\ \E e \in Range(SrcCross) :
                     /\ e.author = t[j].author
                     /\ t[j].submolts = SubSeq(e.submolts, 1, Min(5, Len(e.submolts)))
           /\ \A j \in 1..Len(t) : \A l \in 1..Len(t) :
                j < l => DistinctSubmolts(t[l].author) <= DistinctSubmolts(t[j].author)

====
